---- MODULE Spec2Model ----
(***************************************************************************)
(* linkanalytics (main.go): a content-addressed link store.  One file per  *)
(* Link, named by the SHA-256 of the destination; first line is the        *)
(* destination, every later line is a hit written by log.Logger.           *)
(* Each HTTP request runs in its own goroutine; the only shared state is   *)
(* the directory of files.  Files are modelled byte by byte, handlers are  *)
(* split at their system calls (open/truncate, write, read).               *)
(***************************************************************************)
EXTENDS Integers, Sequences, FiniteSets, TLC

(* ---------- bounds ---------- *)
MaxWorkers == 2
MaxRequests == 3
MaxSeqRequests == 4
MaxVisitRequests == 2
MaxFaultRequests == 2

(* ---------- bytes ---------- *)
NL == "\n"
CR == "\r"

Workers == 1..MaxWorkers

(* ---------- log.Logger ---------- *)
Prefix == << "h", "i", "t", ":", " " >>

Digit(n) == CASE n = 0 -> "0" [] n = 1 -> "1" [] n = 2 -> "2" [] n = 3 -> "3"
              [] n = 4 -> "4" [] n = 5 -> "5" [] n = 6 -> "6" [] n = 7 -> "7"
              [] n = 8 -> "8" [] n = 9 -> "9"

\* log.LstdFlags: "2006/01/02 15:04:05 ", the seconds taken from the clock
FormatHeader(t) ==
    << "2", "0", "2", "6", "/", "0", "1", "/", "0", "1", " ",
       "0", "0", ":", "0", "0", ":",
       Digit((t \div 10) % 10), Digit(t % 10), " " >>

\* logger.Println(ua): prefix, header, message, newline; one write
Println(t, ua) == Prefix \o FormatHeader(t) \o ua \o << NL >>

(* ---------- inputs ---------- *)
\* Values of the "destination" form field (r.FormValue), which saveHandler
\* passes on as they come: empty, two plain ones, and one of two lines
\* whose second line reads like a line of the hit log.
Destinations ==
    { <<>>, <<"a">>, <<"b">>,
      <<"a", NL>> \o Prefix \o FormatHeader(0) \o <<"z">> }

\* Values of the User-Agent header (never contain a line break).
UserAgents == { <<"x">>, <<"y">> }

(* ---------- newLink ---------- *)
Bytes == << "a", "b", "x", "y", "z", NL, CR, " ", ":", "/", "h", "i", "t",
            "0", "1", "2", "3", "4", "5", "6", "7", "8", "9" >>

Ord(c) == CHOOSE i \in 1..Len(Bytes) : Bytes[i] = c

\* sha256 + hex.EncodeToString: a deterministic digest of fixed width over
\* the raw bytes of the destination; no two of the inputs collide
RECURSIVE Sum(_, _)
Sum(d, n) ==
    IF n = 0 THEN 7 ELSE (Sum(d, n - 1) * 31 + Ord(d[n])) % 65536

sha256hex(d) == Sum(d, Len(d))

\* the digest taken of nothing instead of the destination
newLinkNoWrite(destination) ==
    [Destination |-> destination, Hash |-> sha256hex(<<>>)]

newLink(destination) ==
    [Destination |-> destination, Hash |-> sha256hex(destination)]

\* Path components a request may carry: every digest plus one that is the
\* digest of no destination.
Hashes == { newLink(d).Hash : d \in Destinations } \cup {0}

(* ---------- text helpers ---------- *)
IsPrefix(s, t) == Len(s) <= Len(t) /\ SubSeq(t, 1, Len(s)) = s

\* index of the first NL in data, 0 when there is none
RECURSIVE IndexNL(_, _)
IndexNL(data, i) ==
    IF i > Len(data) THEN 0
    ELSE IF data[i] = NL THEN i
    ELSE IndexNL(data, i + 1)

\* bufio.dropCR
dropCR(data) ==
    IF Len(data) > 0 /\ data[Len(data)] = CR
    THEN SubSeq(data, 1, Len(data) - 1)
    ELSE data

\* bufio.ScanLines applied repeatedly: the lines of data, a final
\* unterminated line included when it is non-empty.
RECURSIVE ScanLines(_)
ScanLines(data) ==
    IF data = <<>> THEN <<>>
    ELSE LET i == IndexNL(data, 1) IN
         IF i = 0 THEN << dropCR(data) >>
         ELSE << dropCR(SubSeq(data, 1, i - 1)) >>
              \o ScanLines(SubSeq(data, i + 1, Len(data)))

\* scanner.Scan(); scanner.Text(): the first line, "" when Scan fails at EOF
ScanText(data) ==
    LET ls == ScanLines(data) IN IF ls = <<>> THEN <<>> ELSE ls[1]

(* ---------- state ---------- *)
VARIABLES
    files,   \* the directory: Hash -> bytes of <Hash>.linkanalytics
    req,     \* per goroutine: position in its handler and its locals
    last,    \* the response written by the handler that returned last
    budget,  \* requests the listener will still accept
    clock,   \* wall clock in seconds
    log,     \* history: per Hash, the calls that were answered with success
    fds      \* file handles the process holds open

vars == << files, req, last, budget, clock, log, fds >>

\* a goroutine serving no request; existed/pre remember the unit as
\* saveHandler found it, overlap whether another handler of the same kind
\* was at work on the same unit when this one began
Idle == [ pc |-> "idle", op |-> "none", m |-> 0, ua |-> <<>>,
          l |-> newLink(<<>>), existed |-> FALSE, pre |-> <<>>,
          overlap |-> FALSE ]

\* what a handler hands to its client: status is "redirect" (http.Redirect),
\* "ok" (fmt.Fprintf), "page" (the template), "error" (http.Error) or
\* "panic" (the handler did not return); body is what it carries
Response(w, status, body) ==
    [ op |-> req[w].op, m |-> req[w].m, ua |-> req[w].ua, l |-> req[w].l,
      existed |-> req[w].existed, pre |-> req[w].pre,
      overlap |-> req[w].overlap,
      status |-> status, body |-> body ]

NoResponse ==
    [ op |-> "none", m |-> 0, ua |-> <<>>, l |-> newLink(<<>>),
      existed |-> FALSE, pre |-> <<>>, overlap |-> FALSE,
      status |-> "none", body |-> <<>> ]

Exists(h) == h \in DOMAIN files

Init ==
    /\ files = << >>
    /\ req = [ w \in Workers |-> Idle ]
    /\ last = NoResponse
    /\ budget = MaxRequests
    /\ clock = 0
    /\ log = [ h \in Hashes |-> <<>> ]
    /\ fds = 0

\* net/http starts a goroutine per request; goroutines have no identity, so
\* the request goes to the first free one
Accept(w) ==
    /\ budget > 0
    /\ req[w].pc = "idle"
    /\ \A v \in Workers : v < w => req[v].pc # "idle"

Tick == budget' = budget - 1 /\ clock' = clock + 1

Return(w, status, body) ==
    /\ last' = Response(w, status, body)
    /\ req' = [ req EXCEPT ![w] = Idle ]

Answered(w) ==
    log' = [ log EXCEPT ![req[w].m] =
               Append(@, [ op |-> req[w].op, ua |-> req[w].ua ]) ]

\* the file named h with contents data, all other files as they were
WithFile(h, data) ==
    [ k \in DOMAIN files \cup {h} |-> IF k = h THEN data ELSE files[k] ]

\* a write of data at offset off of a file holding old
WriteAt(old, off, data) ==
    SubSeq(old, 1, off) \o data
    \o SubSeq(old, off + Len(data) + 1, Len(old))

(* ---------- saveHandler: newLink, Link.save ---------- *)
\* some saveHandler is between the two halves of os.WriteFile on h
Saving(h) == \E v \in Workers : req[v].pc = "save_write" /\ req[v].m = h

\* os.WriteFile, first half: OpenFile(O_WRONLY|O_CREATE|O_TRUNC)
saveOpen(h) == WithFile(h, <<>>)

\* the same on a handle opened with O_APPEND
saveAppend(l) == WithFile(l.Hash, files[l.Hash] \o l.Destination \o << NL >>)

\* os.WriteFile, second half: Write(contents) at offset 0 of the new handle
save(l) ==
    WithFile(l.Hash, WriteAt(files[l.Hash], 0, l.Destination \o << NL >>))

saveHandlerOpen(w, destination) ==
    /\ Accept(w)
    /\ LET l == newLink(destination) IN
       /\ req' = [ req EXCEPT ![w] =
                     [ Idle EXCEPT !.pc = "save_write", !.op = "save",
                                   !.m = l.Hash, !.l = l,
                                   !.existed = Exists(l.Hash),
                                   !.overlap = Saving(l.Hash),
                                   !.pre = IF Exists(l.Hash)
                                           THEN files[l.Hash] ELSE <<>> ] ]
       /\ files' = saveOpen(l.Hash)
    /\ fds' = fds + 1
    /\ Tick
    /\ UNCHANGED << last, log >>

\* the write, Close, and http.Redirect to /analytics/<hash>
saveHandlerWrite(w) ==
    /\ req[w].pc = "save_write"
    /\ files' = save(req[w].l)
    /\ fds' = fds - 1
    /\ Return(w, "redirect", <<>>)
    /\ Answered(w)
    /\ UNCHANGED << budget, clock >>

(* ---------- loadLink ---------- *)
\* some goHandler or collectHandler is at work on m
Visiting(m) ==
    \E v \in Workers : /\ req[v].pc # "idle"
                       /\ req[v].op \in { "go", "collect" }
                       /\ req[v].m = m

\* the same with O_CREATE among the flags of the open
loadLinkOpenCreate(w, kind, m, ua) ==
    /\ Accept(w)
    /\ req' = [ req EXCEPT ![w] = [ Idle EXCEPT !.pc = "scan", !.op = kind,
                                                !.m = m, !.ua = ua ] ]
    /\ files' = IF Exists(m) THEN files ELSE WithFile(m, <<>>)
    /\ fds' = fds + 1
    /\ Tick
    /\ UNCHANGED << last, log >>

\* os.Open(filename): the request is answered with the error when it fails
loadLinkOpen(w, kind, m, ua) ==
    /\ Accept(w)
    /\ LET r == [ Idle EXCEPT !.op = kind, !.m = m, !.ua = ua,
                              !.overlap = Visiting(m) ] IN
       IF Exists(m)
       THEN /\ req' = [ req EXCEPT ![w] = [ r EXCEPT !.pc = "scan" ] ]
            /\ fds' = fds + 1
            /\ UNCHANGED last
       ELSE /\ last' = [ NoResponse EXCEPT !.op = kind, !.m = m, !.ua = ua,
                                           !.status = "error" ]
            /\ UNCHANGED << req, fds >>
    /\ Tick
    /\ UNCHANGED << files, log >>

\* the Link given the identifier of the destination that was read
loadLinkRehash(hash) == newLink(ScanText(files[hash]))

\* scanner.Scan(); scanner.Text(); the Link carries the hash it was asked for
loadLink(hash) == [ Destination |-> ScanText(files[hash]), Hash |-> hash ]

\* the scan, the deferred file.Close(), and the return to the handler
loadLinkScan(w) ==
    /\ req[w].pc = "scan"
    /\ fds' = fds - 1
    /\ req' = [ req EXCEPT ![w].l = loadLink(req[w].m),
                           ![w].pc = IF req[w].op = "analytics"
                                     THEN "load_hits" ELSE "hit_open" ]
    /\ UNCHANGED << files, last, budget, clock, log >>

(* ---------- analyticsHandler: loadLink, loadHits ---------- *)
\* os.ReadFile(filename)
loadHits(hash) == files[hash]

analyticsHandler(w, m) == loadLinkOpen(w, "analytics", m, <<>>)

\* loadHits, then the template; a failed loadHits calls err.Error() on the
\* nil error of loadLink (line 115)
analyticsHandlerHits(w) ==
    /\ req[w].pc = "load_hits"
    /\ IF Exists(req[w].m)
       THEN Return(w, "page", loadHits(req[w].m))
       ELSE Return(w, "panic", <<>>)
    /\ UNCHANGED << files, budget, clock, log, fds >>

(* ---------- goHandler, collectHandler: loadLink, gotHit ---------- *)
goHandler(w, m, ua) == loadLinkOpen(w, "go", m, ua)

collectHandler(w, m, ua) == loadLinkOpen(w, "collect", m, ua)

\* os.OpenFile(filename, O_APPEND|O_WRONLY): no O_CREATE; a failure calls
\* err.Error() on the nil error of loadLink (lines 136, 152)
gotHitOpen(w) ==
    /\ req[w].pc = "hit_open"
    /\ IF Exists(req[w].l.Hash)
       THEN /\ req' = [ req EXCEPT ![w].pc = "hit_write" ]
            /\ fds' = fds + 1
            /\ UNCHANGED last
       ELSE /\ Return(w, "panic", <<>>)
            /\ UNCHANGED fds
    /\ UNCHANGED << files, budget, clock, log >>

\* the same with O_TRUNC in place of O_APPEND
gotHitTrunc(hash, ua) == WithFile(hash, Println(clock, ua))

\* the same without O_APPEND: the write lands at offset 0
gotHitNoAppend(hash, ua) ==
    WithFile(hash, WriteAt(files[hash], 0, Println(clock, ua)))

\* logger.Println(ua) on the O_APPEND handle: one write, placed at the end
\* of the file as it is at that moment
gotHit(hash, ua) == WithFile(hash, files[hash] \o Println(clock, ua))

\* the same with the deferred file.Close() left out
gotHitWriteNoClose(w) ==
    /\ req[w].pc = "hit_write"
    /\ files' = gotHit(req[w].l.Hash, req[w].ua)
    /\ Return(w, IF req[w].op = "go" THEN "redirect" ELSE "ok", req[w].l.Destination)
    /\ Answered(w)
    /\ UNCHANGED << budget, clock, fds >>

\* the same with the call of gotHit left out of collectHandler
gotHitWriteGoOnly(w) ==
    /\ req[w].pc = "hit_write"
    /\ files' = IF req[w].op = "go"
                THEN gotHit(req[w].l.Hash, req[w].ua) ELSE files
    /\ fds' = fds - 1
    /\ Return(w, IF req[w].op = "go" THEN "redirect" ELSE "ok", req[w].l.Destination)
    /\ Answered(w)
    /\ UNCHANGED << budget, clock >>

\* the write, the deferred file.Close(), then http.Redirect to
\* l.Destination (go) or "200 OK" (collect)
gotHitWrite(w) ==
    /\ req[w].pc = "hit_write"
    /\ files' = gotHit(req[w].l.Hash, req[w].ua)
    /\ fds' = fds - 1
    /\ Return(w, IF req[w].op = "go" THEN "redirect" ELSE "ok", req[w].l.Destination)
    /\ Answered(w)
    /\ UNCHANGED << budget, clock >>

Visit ==
    \/ \E w \in Workers, m \in Hashes : analyticsHandler(w, m)
    \/ \E w \in Workers : analyticsHandlerHits(w)
    \/ \E w \in Workers, m \in Hashes, ua \in UserAgents : goHandler(w, m, ua)
    \/ \E w \in Workers, m \in Hashes, ua \in UserAgents : collectHandler(w, m, ua)
    \/ \E w \in Workers : loadLinkScan(w)
    \/ \E w \in Workers : gotHitOpen(w)
    \/ \E w \in Workers : gotHitWrite(w)

Register ==
    \/ \E w \in Workers, d \in Destinations : saveHandlerOpen(w, d)
    \/ \E w \in Workers : saveHandlerWrite(w)

Next == Register \/ Visit

Spec == Init /\ [][Next]_vars

(* ---------- requests served one after another ---------- *)
InitSeq ==
    /\ files = << >>
    /\ req = [ w \in Workers |-> Idle ]
    /\ last = NoResponse
    /\ budget = MaxSeqRequests
    /\ clock = 0
    /\ log = [ h \in Hashes |-> <<>> ]
    /\ fds = 0

Busy == { w \in Workers : req[w].pc # "idle" }

NextSeq ==
    \/ Register /\ Cardinality(Busy') <= 1
    \/ Visit /\ Cardinality(Busy') <= 1

SpecSeq == InitSeq /\ [][NextSeq]_vars

(* ---------- visits only, on units registered earlier ---------- *)
Digests == { sha256hex(d) : d \in Destinations }

Preimage == [ h \in Digests |-> CHOOSE d \in Destinations : sha256hex(d) = h ]

\* the destination whose digest is h
DestOf(h) == Preimage[h]

InitVisits ==
    /\ \E R \in { { sha256hex(<<"a">>) }, Digests } :
         /\ files = [ h \in R |-> DestOf(h) \o << NL >> ]
         /\ log = [ h \in Hashes |->
                      IF h \in R THEN << [ op |-> "save", ua |-> <<>> ] >>
                      ELSE <<>> ]
         /\ clock = Cardinality(R)
    /\ req = [ w \in Workers |-> Idle ]
    /\ last = NoResponse
    /\ budget = MaxVisitRequests
    /\ fds = 0

SpecVisits == InitVisits /\ [][Visit]_vars

(* ---------- the same program on storage whose calls can fail ---------- *)
\* gotHit: os.OpenFile returns an error although loadLink has succeeded;
\* the handler then evaluates err.Error() on the nil err of loadLink
gotHitOpenFails(w) ==
    /\ req[w].pc = "hit_open"
    /\ Return(w, "panic", <<>>)
    /\ UNCHANGED << files, budget, clock, log, fds >>

\* loadHits: os.ReadFile returns an error although loadLink has succeeded;
\* the handler then evaluates err.Error() on the nil err of loadLink
loadHitsFails(w) ==
    /\ req[w].pc = "load_hits"
    /\ Return(w, "panic", <<>>)
    /\ UNCHANGED << files, budget, clock, log, fds >>

\* Link.save: the Write of os.WriteFile returns an error, the file stays as
\* the open left it; the handle is closed and the handler answers the error
saveWriteFails(w) ==
    /\ req[w].pc = "save_write"
    /\ fds' = fds - 1
    /\ Return(w, "error", <<>>)
    /\ UNCHANGED << files, budget, clock, log >>

\* gotHit: the Write under logger.Println stops after k bytes; Println's
\* error is dropped, gotHit returns nil and the handler answers as usual
gotHitWriteFails(w, k) ==
    /\ req[w].pc = "hit_write"
    /\ files' = WithFile(req[w].l.Hash,
                         files[req[w].l.Hash]
                         \o SubSeq(Println(clock, req[w].ua), 1, k))
    /\ fds' = fds - 1
    /\ Return(w, IF req[w].op = "go" THEN "redirect" ELSE "ok",
              req[w].l.Destination)
    /\ Answered(w)
    /\ UNCHANGED << budget, clock >>

Fault ==
    \E w \in Workers :
        \/ gotHitOpenFails(w)
        \/ loadHitsFails(w)
        \/ saveWriteFails(w)
        \/ \E k \in { 0, Len(Prefix) } : gotHitWriteFails(w, k)

InitFault ==
    /\ files = << >>
    /\ req = [ w \in Workers |-> Idle ]
    /\ last = NoResponse
    /\ budget = MaxFaultRequests
    /\ clock = 0
    /\ log = [ h \in Hashes |-> <<>> ]
    /\ fds = 0

NextFault == Register \/ Visit \/ Fault

SpecFault == InitFault /\ [][NextFault]_vars

(***************************************************************************)
(* What a reader of a unit sees                                            *)
(***************************************************************************)
\* the hit records of a unit as section 6 of the design lays it out: every
\* line after the first
Records(data) ==
    LET ls == ScanLines(data) IN IF ls = <<>> THEN <<>> ELSE Tail(ls)

Contains(s, sub) ==
    \E i \in 1..(Len(s) - Len(sub) + 1) : SubSeq(s, i, i + Len(sub) - 1) = sub

\* line is <prefix><timestamp> <client_signature> with signature ua
IsRecord(line, ua) ==
    /\ Len(line) = Len(Prefix) + Len(FormatHeader(0)) + Len(ua)
    /\ \E t \in 0..clock : line = Prefix \o FormatHeader(t) \o ua

\* the visits answered since the unit of a log was last registered
Visits(lg) ==
    LET saves == { i \in 1..Len(lg) : lg[i].op = "save" }
        from == IF saves = {} THEN 0
                ELSE CHOOSE i \in saves : \A j \in saves : j <= i
    IN SubSeq(lg, from + 1, Len(lg))

(***************************************************************************)
(* C1  registerDestination is idempotent on an existing unit: when the     *)
(* unit of derive(d) exists, a registration of d that has returned left    *)
(* the unit exactly as it found it.                                        *)
(***************************************************************************)
C1_CreateIdempotent ==
    [][ \A w \in Workers :
          ( req[w].pc = "save_write" /\ req'[w].pc = "idle" /\ req[w].existed )
          => files'[req[w].m] = req[w].pre ]_vars

(***************************************************************************)
(* C2  The hit history of a unit only grows: whenever a call returns, the  *)
(* hit lines the unit held when the call began are a prefix of the hit     *)
(* lines it holds now (calls served one after another).                    *)
(***************************************************************************)
C2_HitsOnlyAppended ==
    [][ \A w \in Workers :
          ( req[w].pc # "idle" /\ req'[w].pc = "idle" /\ Exists(req[w].m) )
          => LET before == IF req[w].op = "save" THEN req[w].pre
                           ELSE files[req[w].m]
             IN ( req[w].op = "save" => req[w].existed )
                => /\ req[w].m \in DOMAIN files'
                   /\ IsPrefix(Records(before), Records(files'[req[w].m])) ]_vars

(***************************************************************************)
(* C3  Append is strictly additive: the write of gotHit leaves every byte  *)
(* that was in the unit where it was and adds exactly one line, which      *)
(* contains the client signature.                                          *)
(***************************************************************************)
C3_AppendAdditive ==
    [][ \A w \in Workers :
          ( req[w].pc = "hit_write" /\ req'[w].pc = "idle" )
          => LET old == files[req[w].l.Hash]
                 new == files'[req[w].l.Hash]
                 added == SubSeq(new, Len(old) + 1, Len(new))
             IN /\ IsPrefix(old, new)
                /\ added # <<>>
                /\ IndexNL(added, 1) = Len(added)
                /\ Contains(added, req[w].ua) ]_vars

\* a hit was appended to a unit that already held a destination and a hit
C3_Witness ==
    /\ last.op \in { "go", "collect" }
    /\ last.status \in { "redirect", "ok" }
    /\ Exists(last.m)
    /\ Len(Records(files[last.m])) >= 2
    /\ IsRecord(Records(files[last.m])[2], last.ua)

(***************************************************************************)
(* C4  After N visits of a registered identifier, served one after         *)
(* another, getAnalytics returns exactly N hit records, in call order,     *)
(* the i-th carrying the i-th client signature.                            *)
(***************************************************************************)
C4_AnalyticsListsVisits ==
    last.status = "page"
    => LET recs == Records(last.body)
           calls == Visits(log[last.m])
       IN /\ Len(recs) = Len(calls)
          /\ \A i \in 1..Len(calls) : IsRecord(recs[i], calls[i].ua)

(***************************************************************************)
(* C5  Round trip: registering a destination d that is not empty and has   *)
(* no white space at either end, on an identifier not registered before,   *)
(* and then asking for its analytics returns d and no hit record.          *)
(***************************************************************************)
WhiteSpace == { " ", NL, CR }

Trimmed(d) == d # <<>> /\ d[1] \notin WhiteSpace /\ d[Len(d)] \notin WhiteSpace

C5_RegisterRoundTrip ==
    \A d \in Destinations :
        ( /\ Trimmed(d)
          /\ last.status = "page"
          /\ last.m = sha256hex(d)
          /\ log[last.m] = << [ op |-> "save", ua |-> <<>> ] >> )
        => /\ last.l.Destination = d
           /\ Records(last.body) = <<>>

(***************************************************************************)
(* C6  visit and getAnalytics on an identifier that was never registered   *)
(* are answered with an error, carry no destination and no history, start  *)
(* no further step, and leave the identifier without a unit and without a  *)
(* recorded hit.                                                           *)
(***************************************************************************)
NeverRegistered(h) ==
    /\ \A i \in 1..Len(log[h]) : log[h][i].op # "save"
    /\ \A w \in Workers : ~( req[w].op = "save" /\ req[w].m = h )

NewLines(h) ==
    ScanLines(SubSeq(files[h], Len(DestOf(h)) + 2, Len(files[h])))

C7_ConcurrentVisitsAllRecorded ==
    \A h \in DOMAIN files :
        LET calls == Visits(log[h])
            new == NewLines(h)
        IN /\ IsPrefix(DestOf(h) \o << NL >>, files[h])
           /\ Len(new) = Len(calls)
           /\ \A i \in 1..Len(calls) : IsRecord(new[i], calls[i].ua)

\* two visits of one identifier with different signatures overlapped, both
\* have been answered and nothing is in flight
C7_Witness ==
    /\ Busy = {}
    /\ last.op \in { "go", "collect" }
    /\ last.status \in { "redirect", "ok" }
    /\ last.overlap
    /\ Len(NewLines(last.m)) = 2
    /\ { Visits(log[last.m])[i].ua : i \in 1..2 } = UserAgents

(***************************************************************************)
(* C8  Concurrent registration is idempotent-safe: whenever no             *)
(* registration of d is between its open and its write, the unit of        *)
(* derive(d) begins with the destination line of d, and nothing after      *)
(* that header was written by a registration (every later line is a hit    *)
(* line or the tail of one).                                               *)
(***************************************************************************)
IsSuffix(s, t) == Len(s) <= Len(t) /\ SubSeq(t, Len(t) - Len(s) + 1, Len(t)) = s

Stamps == { Prefix \o FormatHeader(t) : t \in 0..9 }

FromHitLog(line) ==
    \E stamp \in Stamps, ua \in UserAgents : IsSuffix(line, stamp \o ua)

C8_ConcurrentCreateOneHeader ==
    \A h \in DOMAIN files :
        LET header == DestOf(h) \o << NL >>
        IN ~Saving(h)
           => /\ IsPrefix(header, files[h])
              /\ LET rest == ScanLines(SubSeq(files[h], Len(header) + 1,
                                              Len(files[h])))
                 IN \A i \in 1..Len(rest) : FromHitLog(rest[i])

\* a registration that began while another one had the unit open has
\* returned, with a visit written in between
C8_Witness ==
    /\ last.op = "save"
    /\ last.overlap
    /\ ~Saving(last.m)
    /\ Len(files[last.m]) > Len(last.l.Destination) + 1

(***************************************************************************)
(* C9  Content addressing: the first line of every existing unit is a      *)
(* destination whose digest is the unit's identifier, and every Link       *)
(* that load or visit returned has Hash = digest of its Destination.       *)
(***************************************************************************)
C9_ContentAddressed ==
    /\ \A h \in DOMAIN files : sha256hex(ScanText(files[h])) = h
    /\ last.status \in { "redirect", "ok", "page" }
       => sha256hex(last.l.Destination) = last.l.Hash

VisitCore(fs, m, ua, t) ==
    IF m \in DOMAIN fs
    THEN [ files |-> [ k \in DOMAIN fs |->
                        IF k = m THEN fs[k] \o Println(t, ua) ELSE fs[k] ],
           outcome |-> "success" ]
    ELSE [ files |-> fs, outcome |-> "error" ]

Outcome(status) == IF status \in { "redirect", "ok" } THEN "success" ELSE status

\* C11: with one call at a time, a goHandler call and a collectHandler call
\* on the same storage, identifier and User-Agent leave the same storage and
\* end the same way (success or error): both are VisitCore, and only the
\* response (redirect or plain acknowledgement) tells them apart.
C11_GoCollectSameCore ==
    [][ /\ ( /\ budget' < budget
             /\ req' = req
             /\ last'.op \in { "go", "collect" } )
           => /\ files' = VisitCore(files, last'.m, last'.ua, clock).files
              /\ Outcome(last'.status)
                   = VisitCore(files, last'.m, last'.ua, clock).outcome
        /\ \A w \in Workers :
              ( /\ req[w].op \in { "go", "collect" }
                /\ req'[w] # req[w] )
              => IF req'[w].pc = "idle"
                 THEN /\ files' = VisitCore(files, req[w].m, req[w].ua,
                                            clock).files
                      /\ Outcome(last'.status)
                           = VisitCore(files, req[w].m, req[w].ua,
                                       clock).outcome
                      /\ last'.status
                           = IF req[w].op = "go" THEN "redirect" ELSE "ok"
                 ELSE files' = files
      ]_vars

\* a collect call has succeeded on a unit on which a go call succeeded before
C11_Witness ==
    /\ last.op = "collect"
    /\ last.status = "ok"
    /\ \E i \in 1..Len(log[last.m]) : log[last.m][i].op = "go"
    /\ Len(Records(files[last.m])) >= 2

(* ---------- C12: a failure after a successful load is answered ---------- *)
\* C12: a call never ends in a run-time panic: when loadLink fails, when
\* gotHit fails after loadLink has succeeded, or when loadHits fails after
\* loadLink has succeeded, the handler answers an error that carries no
\* destination and no history.
C12_ErrorsAreValues ==
    [][ /\ ( budget' < budget /\ req' = req )
           => last'.status = "error" /\ last'.body = <<>>
        /\ \A w \in Workers :
              ( req[w].pc # "idle" /\ req'[w].pc = "idle" )
              => /\ last'.status # "panic"
                 /\ last'.status \notin { "redirect", "ok", "page" }
                    => last'.status = "error" /\ last'.body = <<>>
      ]_vars

(* ---------- C13: a hit that was not written is not answered as recorded --- *)
\* C13: gotHit returns nil, and the visit is answered with the redirect or
\* the acknowledgement, only if the write of the hit line has succeeded: the
\* unit then ends with the whole line of this visit.
C13_WriteFailureReported ==
    [][ \A w \in Workers :
          ( /\ req[w].pc = "hit_write"
            /\ req'[w].pc = "idle"
            /\ last'.status \in { "redirect", "ok" } )
          => /\ Len(files'[req[w].m])
                  = Len(files[req[w].m]) + Len(Println(clock, req[w].ua))
             /\ IsSuffix(Println(clock, req[w].ua), files'[req[w].m])
      ]_vars

(* ---------- C14: a unit without a destination line does not load ---------- *)
\* C14: when the file of the unit is there but holds no line at all (as it
\* does between the truncation and the write of a registration, or after a
\* write that failed), loadLink returns an error and the handler answers it;
\* it does not go on with a Link whose Destination is empty.
C14_TruncatedUnitFailsToLoad ==
    [][ \A w \in Workers :
          ( /\ req[w].pc = "scan"
            /\ req'[w] # req[w]
            /\ files[req[w].m] = <<>> )
          => /\ req'[w].pc = "idle"
             /\ last'.status = "error"
      ]_vars

(* ---------- C15: the lines after the first are whole hit records ---------- *)
\* line starts as logger.Println starts every line: prefix, date, time, space
WellFormed(line) == \E stamp \in Stamps : IsPrefix(stamp, line)

\* C15: in every unit no registration is writing, each line after the first,
\* the last line excepted, is one whole hit record
\* "hit: <date> <time> <User-Agent>"; no line in the middle of a unit is a
\* piece of a record.
C15_HitLinesWellFormed ==
    \A h \in DOMAIN files :
        ~ Saving(h)
        => LET rs == Records(files[h]) IN
           \A i \in 1..(Len(rs) - 1) : WellFormed(rs[i])

(* ---------- C16: no unit with an empty destination line ---------- *)
\* C16: with one call at a time, saveHandler called with the empty
\* destination answers an error and creates no file, so no unit that a
\* registration has written starts with an empty line.
C16_NoEmptyDestination ==
    /\ ( last.op = "save" /\ last.l.Destination = <<>> )
       => last.status = "error"
    /\ \A h \in DOMAIN files :
          ~ Saving(h) => h # sha256hex(<<>>) /\ ScanText(files[h]) # <<>>

(* ---------- C17: file handles are released ---------- *)
\* the handlers that hold a handle: between OpenFile and Write of
\* os.WriteFile, between os.Open and the return of loadLink, between
\* os.OpenFile and the return of gotHit
Holding == { w \in Workers : req[w].pc \in { "save_write", "scan", "hit_write" } }

\* C17: save, loadLink, loadHits and gotHit close the handle they opened on
\* every way out, also when a call of package os fails or the handler
\* panics: the process holds one handle per call that is between its open
\* and its return, and none when no handler is running.
C17_HandlesReleased ==
    /\ fds = Cardinality(Holding)
    /\ Busy = {} => fds = 0

\* all handlers have returned, the last one through the panic that follows
\* a failed os.OpenFile or os.ReadFile, after a unit was written
C17_Witness ==
    /\ Busy = {}
    /\ budget = 0
    /\ last.status = "panic"
    /\ \E h \in DOMAIN files : files[h] # <<>>

(* ---------- C18: reading leaves the storage alone ---------- *)
\* C18: no step of loadLink (in any handler), of loadHits or of
\* analyticsHandler changes which units exist or what they hold, whether
\* the call succeeds, answers an error or panics.
C18_ReadsChangeNothing ==
    [][ /\ ( budget' < budget /\ req' = req ) => files' = files
        /\ \A w \in Workers :
              ( /\ req'[w] # req[w]
                /\ \/ req[w].op = "analytics"
                   \/ req'[w].op = "analytics"
                   \/ req[w].pc = "scan"
                   \/ req'[w].pc = "scan" )
              => files' = files
      ]_vars

\* analyticsHandler has answered the page of a unit that holds its
\* destination line, and the unit is as the page shows it
C18_Witness ==
    /\ last.op = "analytics"
    /\ last.status = "page"
    /\ last.body # <<>>
    /\ files[last.m] = last.body

(* ---------- C19: a call touches one unit only ---------- *)
\* the unit a call is about: the digest of the destination for saveHandler,
\* the identifier of the path for the other handlers
Target(r) == IF r.op = "save" THEN sha256hex(r.l.Destination) ELSE r.m

SameUnit(h) ==
    /\ (h \in DOMAIN files') = (h \in DOMAIN files)
    /\ h \in DOMAIN files => files'[h] = files[h]

\* C19: every step of saveHandler(d) leaves all units but the one named
\* sha256(d) as they are, in existence and in content, and every step of a
\* visit of m leaves all units but m as they are.
C19_OneUnitPerCall ==
    [][ /\ req' = req => files' = files
        /\ \A w \in Workers :
              req'[w] # req[w]
              => LET r == IF req[w].pc = "idle" THEN req'[w] ELSE req[w] IN
                 \A h \in Hashes \ { Target(r) } : SameUnit(h)
      ]_vars

\* a visit has added its line to one unit while another unit is in the
\* directory, still without any hit
C19_Witness ==
    /\ last.op \in { "go", "collect" }
    /\ last.status \in { "redirect", "ok" }
    /\ Exists(last.m)
    /\ Records(files[last.m]) # <<>>
    /\ \E h \in DOMAIN files : h # last.m /\ files[h] = DestOf(h) \o << NL >>

(* ---------- C20: the page of analyticsHandler is of one piece ---------- *)
\* C20: whenever analyticsHandler answers the page, also while
\* registrations and visits of the same unit are running, the Destination
\* of the Link it shows is the first line of the body it shows.
C20_AnalyticsConsistentPair ==
    ( last.op = "analytics" /\ last.status = "page" )
    => last.l.Destination = ScanText(last.body)
====
